---------------------------- MODULE Spec2Model ----------------------------
(***************************************************************************)
(* A model of the vector-index lifecycle of the RAG backend: the service   *)
(* layer VectorstoreService / IngestService / QueryService and the two     *)
(* endpoints (/query, /ingest/upload) that drive it.                       *)
(*                                                                         *)
(* Threads.  Every coroutine of the application runs on one asyncio event  *)
(* loop.  A query (async def process_query) gives the loop up at each of   *)
(* its awaits.  A write (add_file_to_vectorstore, ingest_documents) is a   *)
(* plain synchronous function that its callers call directly from a        *)
(* coroutine (ingest.py:59, app_factory.py:22), so it keeps the loop from  *)
(* its first to its last statement.  The variable loop holds the task that *)
(* occupies the event-loop thread.                                         *)
(*                                                                         *)
(* Library calls (FAISS.from_documents, add_documents, save_local,         *)
(* load_local, RecursiveCharacterTextSplitter) are modelled by what they   *)
(* do to the state the repository's code can see: a FAISS object is a      *)
(* vector index plus a docstore; save_local writes them, in place and one  *)
(* after the other, to index.faiss and index.pkl.                          *)
(***************************************************************************)
EXTENDS Integers, Sequences, FiniteSets, TLC

VARIABLES
    disk,        \* the directory VECTORSTORE_PATH and its two files
    heap,        \* the FAISS objects alive in the process
    _db,         \* VectorstoreService._db: a reference into heap, or None
    _retriever,  \* VectorstoreService._retriever: the object it wraps, or None
    loop,        \* the task occupying the event-loop thread, or Idle
    w,           \* the write tasks (background uploads and ingest calls)
    q,           \* the query tasks
    pd           \* a call of a pure function of the services on its own

vars == <<disk, heap, _db, _retriever, loop, w, q, pd>>

----------------------------------------------------------------------------
(* Bounds of the model *)

NWriters == 2
NQueries == 1
MaxLen == 2
MaxDocs == 2
MaxMult == 2

Writers == 1..NWriters
Queries == (NWriters + 1)..(NWriters + NQueries)
Objs == 1..(NWriters + 1)

None == 0
Idle == None

----------------------------------------------------------------------------
(* Texts, documents and chunks.  A text is kept by the lengths of its      *)
(* leading whitespace, of its body (first to last non-blank character) and *)
(* of its trailing whitespace; an all-blank text of n characters is        *)
(* [lead |-> n, body |-> 0, trail |-> 0].                                  *)

CHUNK_SIZE == 2000
CHUNK_OVERLAP == 200

Text(l, b, t) == [lead |-> l, body |-> b, trail |-> t]

TextLen(t) == t.lead + t.body + t.trail

Strip(t) == Text(0, t.body, 0)

Concat(a, b) ==
    IF a.body = 0 /\ b.body = 0 THEN Text(TextLen(a) + TextLen(b), 0, 0)
    ELSE IF a.body = 0 THEN Text(TextLen(a) + b.lead, b.body, b.trail)
    ELSE IF b.body = 0 THEN Text(a.lead, a.body, a.trail + TextLen(b))
    ELSE Text(a.lead, a.body + a.trail + b.lead + b.body, b.trail)

\* the literal "passage: " of the f-string: eight characters and a blank
PassagePrefix == Text(0, 8, 1)

Doc(s, l, b, t) == [source |-> s, text |-> Text(l, b, t)]

\* RecursiveCharacterTextSplitter(chunk_size, chunk_overlap) on one text:
\* windows of chunk_size characters of the body, each starting
\* chunk_size - chunk_overlap after the one before; blank margins are
\* stripped and a blank text gives no chunk.
SplitText_overlapOnTop(d, size, overlap) ==
    LET n == d.text.body
        step == size
        last == IF n <= size + overlap THEN 0
                ELSE (n - size - overlap + step - 1) \div step
    IN  IF n = 0 THEN << >>
        ELSE [i \in 1..(last + 1) |->
                 LET start == (i - 1) * step
                     len == IF n - start < size + overlap
                            THEN n - start ELSE size + overlap
                 IN  [source |-> d.source, start |-> start,
                      text |-> Text(0, len, 0)]]

SplitText(d, size, overlap) ==
    LET n == d.text.body
        step == size - overlap
        last == IF n <= size THEN 0 ELSE (n - size + step - 1) \div step
    IN  IF n = 0 THEN << >>
        ELSE [i \in 1..(last + 1) |->
                 LET start == (i - 1) * step
                     len == IF n - start < size THEN n - start ELSE size
                 IN  [source |-> d.source, start |-> start,
                      text |-> Text(0, len, 0)]]

RECURSIVE split_documents(_)
split_documents(documents) ==
    IF documents = << >> THEN << >>
    ELSE SplitText(Head(documents), CHUNK_SIZE, CHUNK_OVERLAP)
             \o split_documents(Tail(documents))

_filter_and_prepare_chunks(chunks) ==
    [i \in 1..Len(chunks) |->
        [chunks[i] EXCEPT !.text = Concat(PassagePrefix, Strip(@))]]

\* _process_documents without its second test: an empty list of chunks is
\* returned as a success
_process_documents_noChunkTest(documents) ==
    IF documents = << >>
    THEN [status |-> "warning", chunks |-> << >>]
    ELSE [status |-> "success",
          chunks |-> _filter_and_prepare_chunks(split_documents(documents))]

_process_documents(documents) ==
    IF documents = << >>
    THEN [status |-> "warning", chunks |-> << >>]
    ELSE LET filtered == _filter_and_prepare_chunks(split_documents(documents))
         IN  IF filtered = << >>
             THEN [status |-> "warning", chunks |-> << >>]
             ELSE [status |-> "success", chunks |-> filtered]

\* The documents the write operations are given in the lifecycle model: a
\* document of two chunks, one of a single chunk and a blank one.
DocA == Doc("A", 0, CHUNK_SIZE + 1, 0)
DocB == Doc("B", 0, 1, 0)
DocW == Doc("W", 1, 0, 1)

FileInputs == {<< >>, <<DocA>>, <<DocB>>, <<DocW>>}
DirInputs == {<< >>, <<DocA>>, <<DocB>>, <<DocW>>}

----------------------------------------------------------------------------
(* The persisted store and the objects in memory *)

NoFile == [st |-> "absent", data |-> << >>]
Truncated == [st |-> "trunc", data |-> << >>]
Written(s) == [st |-> "ok", data |-> s]

NoStore == [dir |-> FALSE, faiss |-> NoFile, pkl |-> NoFile]

Free == [live |-> FALSE, vecs |-> << >>, docs |-> << >>]
Index(chunks) == [live |-> TRUE, vecs |-> chunks, docs |-> chunks]

\* os.path.exists(VECTORSTORE_PATH) and len(os.listdir(VECTORSTORE_PATH)) > 0
check_vectorstore_exists ==
    disk.dir /\ (disk.faiss.st # "absent" \/ disk.pkl.st # "absent")

\* FAISS.load_local reads index.faiss, then unpickles index.pkl; it raises
\* when either is missing or cut short, and checks nothing else.
Loadable(d) == d.dir /\ d.faiss.st = "ok" /\ d.pkl.st = "ok"

Loaded(d) == [live |-> TRUE, vecs |-> d.faiss.data, docs |-> d.pkl.data]

\* the store holds one complete index: both files whole and of the same index
Complete(d) == Loadable(d) /\ d.faiss.data = d.pkl.data

Range(s) == {s[i] : i \in 1..Len(s)}

\* the references the process holds
Roots(db, wt, qt) ==
    {db} \cup {wt[t].ldb : t \in Writers} \cup {qt[x].vs : x \in Queries}

Collect(h, roots) == [o \in Objs |-> IF o \in roots THEN h[o] ELSE Free]

NewObj(h) == CHOOSE o \in Objs : ~h[o].live /\ \A p \in Objs : ~h[p].live => o <= p

----------------------------------------------------------------------------
(* Tasks *)

WIdle == [pc |-> "idle", kind |-> "none", documents |-> << >>, clear |-> FALSE,
          chunks |-> << >>, ldb |-> None, status |-> "none", fresh |-> FALSE]

QIdle == [pc |-> "idle", vs |-> None, pass1 |-> Free, pass2 |-> Free,
          outcome |-> 0]

PdIdle == [pc |-> "off", documents |-> << >>, result |-> [status |-> "none", chunks |-> << >>]]

Init ==
    /\ disk = NoStore
    /\ heap = [o \in Objs |-> Free]
    /\ _db = None
    /\ _retriever = None
    /\ loop = Idle
    /\ w = [t \in Writers |-> WIdle]
    /\ q = [x \in Queries |-> QIdle]
    /\ pd = PdIdle

----------------------------------------------------------------------------
(* The event loop *)

\* A task may run a step when the event-loop thread is free or is its own.
MayRun(t) == loop \in {Idle, t}

\* The loop after a write has started in task t.  With the write in a worker
\* thread (a plain def handed to run_in_threadpool) the loop would stay as
\* it is.
SyncCall_inThreadpool(t) == loop

\* process_file_in_background is an async def that calls the synchronous
\* add_file_to_vectorstore directly: the write occupies the event-loop thread
\* until it returns.
SyncCall(t) == t

\* Task slots are interchangeable: a new task takes the lowest free one.
FreeSlot(t) == w[t].pc = "idle" /\ \A u \in Writers : u < t => w[u].pc # "idle"

\* the write of task t has its result, a status; its caller, still on the
\* same thread, has yet to log it and finish
Returned(t, status) ==
    /\ w' = [w EXCEPT ![t].pc = "done", ![t].status = status]
    /\ loop' = loop

----------------------------------------------------------------------------
(* VectorstoreService *)

\* load_vectorstore that sets _db and leaves _retriever as it was
load_vectorstore_dbOnly ==
    IF _db # None /\ _retriever # None
    THEN [ok |-> TRUE, db |-> _db, retriever |-> _retriever, heap |-> heap]
    ELSE IF Loadable(disk)
    THEN LET o == NewObj(heap)
         IN  [ok |-> TRUE, db |-> o, retriever |-> _retriever,
              heap |-> [heap EXCEPT ![o] = Loaded(disk)]]
    ELSE [ok |-> FALSE, db |-> None, retriever |-> None, heap |-> heap]

\* load_vectorstore: what the call returns and leaves behind.  ok is FALSE
\* when load_local raised: the handler sets both fields to None and re-raises.
load_vectorstore ==
    IF _db # None /\ _retriever # None
    THEN [ok |-> TRUE, db |-> _db, retriever |-> _retriever, heap |-> heap]
    ELSE IF Loadable(disk)
    THEN LET o == NewObj(heap)
         IN  [ok |-> TRUE, db |-> o, retriever |-> o,
              heap |-> [heap EXCEPT ![o] = Loaded(disk)]]
    ELSE [ok |-> FALSE, db |-> None, retriever |-> None, heap |-> heap]

\* get_vectorstore that reads the store at every call
get_vectorstore_reload ==
    IF Loadable(disk)
    THEN LET o == NewObj(heap)
         IN  [ok |-> TRUE, db |-> o, retriever |-> o,
              heap |-> [heap EXCEPT ![o] = Loaded(disk)]]
    ELSE [ok |-> FALSE, db |-> None, retriever |-> None, heap |-> heap]

\* get_vectorstore: loads only while _db is None
get_vectorstore ==
    IF _db = None
    THEN load_vectorstore
    ELSE [ok |-> TRUE, db |-> _db, retriever |-> _retriever, heap |-> heap]

\* get_retriever: loads only while _retriever is None
get_retriever ==
    IF _retriever = None
    THEN load_vectorstore
    ELSE [ok |-> TRUE, db |-> _db, retriever |-> _retriever, heap |-> heap]

\* a call of VectorstoreService.load_vectorstore() by itself, as the startup
\* handler makes it
LoadVectorstore ==
    /\ loop = Idle
    /\ LET r == load_vectorstore
       IN  /\ _db' = r.db
           /\ _retriever' = r.retriever
           /\ heap' = r.heap
    /\ UNCHANGED <<disk, loop, w, q, pd>>

\* a call of VectorstoreService.get_retriever() by itself
GetRetriever ==
    /\ loop = Idle
    /\ LET r == get_retriever
       IN  /\ _db' = r.db
           /\ _retriever' = r.retriever
           /\ heap' = r.heap
    /\ UNCHANGED <<disk, loop, w, q, pd>>

----------------------------------------------------------------------------
(* IngestService: the write operations *)

InStore(c) ==
    \/ c \in Range(disk.faiss.data) \cup Range(disk.pkl.data)
    \/ _db # None /\ c \in Range(heap[_db].vecs) \cup Range(heap[_db].docs)

Fresh(chunks) == \A i \in 1..Len(chunks) : ~InStore(chunks[i])

\* upload_file: the bytes are stored in a temporary file, unread, and the
\* background task is scheduled; the response is "accepted"
upload_file(t) ==
    /\ loop = Idle
    /\ FreeSlot(t)
    /\ w' = [w EXCEPT ![t] = [WIdle EXCEPT !.pc = "queued", !.kind = "add"]]
    /\ UNCHANGED <<disk, heap, _db, _retriever, loop, q, pd>>

\* process_file_in_background -> add_file_to_vectorstore, up to the call of
\* _save_to_vectorstore(chunks, create_new=False); documents is what
\* load_document reads from the temporary file.  The queued tasks are all
\* alike: the one in the lowest slot stands for whichever runs next.
add_file_to_vectorstore(t, documents) ==
    /\ loop = Idle
    /\ w[t].pc = "queued"
    /\ \A u \in Writers : u < t => w[u].pc # "queued"
    /\ LET result == _process_documents(documents)
       IN  IF result.status # "success"
           THEN w' = [w EXCEPT ![t].pc = "done", ![t].status = result.status]
           ELSE w' = [w EXCEPT ![t].pc = "a_get", ![t].chunks = result.chunks,
                               ![t].fresh = Fresh(result.chunks)]
    /\ loop' = SyncCall(t)
    /\ UNCHANGED <<disk, heap, _db, _retriever, q, pd>>

\* db = VectorstoreService.get_vectorstore()
AddGetVectorstore(t) ==
    /\ MayRun(t)
    /\ w[t].pc = "a_get"
    /\ LET r == get_vectorstore
       IN  /\ _db' = r.db
           /\ _retriever' = r.retriever
           /\ heap' = r.heap
           /\ IF r.ok
              THEN /\ w' = [w EXCEPT ![t].pc = "a_add", ![t].ldb = r.db]
                   /\ loop' = loop
              ELSE Returned(t, "error")
    /\ UNCHANGED <<disk, q, pd>>

\* FAISS.add_documents on the object db: every chunk gets a new vector and a
\* new docstore entry behind the ones there are; nothing is compared with
\* what the index holds.  The variant leaves out the chunks it holds already.
add_documents_skipKnown(db, chunks) ==
    [db EXCEPT !.vecs = @ \o SelectSeq(chunks, LAMBDA c : c \notin Range(db.vecs)),
               !.docs = @ \o SelectSeq(chunks, LAMBDA c : c \notin Range(db.docs))]

add_documents(db, chunks) ==
    [db EXCEPT !.vecs = @ \o chunks, !.docs = @ \o chunks]

\* db.add_documents(chunks): the chunks are embedded, then appended to the
\* object itself; a failure of the embedding raises before anything is added
AddDocuments(t) ==
    /\ MayRun(t)
    /\ w[t].pc = "a_add"
    /\ \/ /\ Len(heap[w[t].ldb].vecs) + Len(w[t].chunks) <= MaxLen
          /\ Len(heap[w[t].ldb].docs) + Len(w[t].chunks) <= MaxLen
          /\ heap' = [heap EXCEPT ![w[t].ldb] = add_documents(@, w[t].chunks)]
          /\ w' = [w EXCEPT ![t].pc = "s_faiss"]
          /\ loop' = loop
       \/ /\ heap' = heap
          /\ Returned(t, "error")
    /\ UNCHANGED <<disk, _db, _retriever, q, pd>>

\* ingest_documents without the test of clear_existing: an existing store is
\* always removed and built again
ingest_documents_alwaysClear(t, documents, clear_existing, isdir) ==
    /\ loop = Idle
    /\ FreeSlot(t)
    /\ ~isdir => documents = << >>
    /\ LET call == [WIdle EXCEPT !.kind = "ingest"]
       IN  IF ~isdir
           THEN w' = [w EXCEPT ![t] = [call EXCEPT !.pc = "done", !.status = "error"]]
           ELSE w' = [w EXCEPT ![t] = [call EXCEPT
                         !.documents = documents,
                         !.clear = check_vectorstore_exists,
                         !.pc = IF check_vectorstore_exists THEN "i_rmtree"
                                ELSE "i_docs"]]
    /\ loop' = SyncCall(t)
    /\ UNCHANGED <<disk, heap, _db, _retriever, q, pd>>

\* ingest_documents(data_dir, clear_existing), up to the removal of the old
\* store or the loading of the documents.  documents is what data_dir holds;
\* a call that goes on keeps it, and keeps in clear whether it is to remove
\* an existing store.
ingest_documents(t, documents, clear_existing, isdir) ==
    /\ loop = Idle
    /\ FreeSlot(t)
    /\ ~isdir => documents = << >>
    /\ LET call == [WIdle EXCEPT !.kind = "ingest"]
       IN  IF ~isdir
           THEN w' = [w EXCEPT ![t] = [call EXCEPT !.pc = "done", !.status = "error"]]
           ELSE IF check_vectorstore_exists /\ ~clear_existing
           THEN w' = [w EXCEPT ![t] = [call EXCEPT !.pc = "done", !.status = "success"]]
           ELSE w' = [w EXCEPT ![t] = [call EXCEPT
                         !.documents = documents,
                         !.clear = check_vectorstore_exists,
                         !.pc = IF check_vectorstore_exists THEN "i_rmtree"
                                ELSE "i_docs"]]
    /\ loop' = SyncCall(t)
    /\ UNCHANGED <<disk, heap, _db, _retriever, q, pd>>

\* shutil.rmtree(VECTORSTORE_PATH)
IngestRmtree(t) ==
    /\ MayRun(t)
    /\ w[t].pc = "i_rmtree"
    /\ disk' = NoStore
    /\ w' = [w EXCEPT ![t].pc = "i_mkdir"]
    /\ UNCHANGED <<heap, _db, _retriever, loop, q, pd>>

\* os.makedirs(VECTORSTORE_PATH, exist_ok=True)
IngestMakedirs(t) ==
    /\ MayRun(t)
    /\ w[t].pc = "i_mkdir"
    /\ disk' = [disk EXCEPT !.dir = TRUE]
    /\ w' = [w EXCEPT ![t].pc = "i_docs"]
    /\ UNCHANGED <<heap, _db, _retriever, loop, q, pd>>

\* documents = load_all_documents(data_dir); _process_documents(documents)
IngestProcess(t) ==
    /\ MayRun(t)
    /\ w[t].pc = "i_docs"
    /\ LET result == _process_documents(w[t].documents)
       IN  IF result.status # "success"
           THEN Returned(t, result.status)
           ELSE /\ w' = [w EXCEPT ![t].pc = "i_build", ![t].chunks = result.chunks,
                                  ![t].fresh = Fresh(result.chunks)]
                /\ loop' = loop
    /\ UNCHANGED <<disk, heap, _db, _retriever, q, pd>>

\* db = FAISS.from_documents(chunks, EMBEDDING_MODEL): a new object, local to
\* the call; a failure of the embedding raises
IngestBuild(t) ==
    /\ MayRun(t)
    /\ w[t].pc = "i_build"
    /\ \/ /\ Len(w[t].chunks) <= MaxLen
          /\ \E o \in Objs : ~heap[o].live
          /\ LET o == NewObj(heap)
             IN  /\ heap' = [heap EXCEPT ![o] = Index(w[t].chunks)]
                 /\ w' = [w EXCEPT ![t].pc = "s_faiss", ![t].ldb = o]
          /\ loop' = loop
       \/ /\ heap' = heap
          /\ Returned(t, "error")
    /\ UNCHANGED <<disk, _db, _retriever, q, pd>>

\* db.save_local(VECTORSTORE_PATH), first half: the directory is made and
\* index.faiss is written over the file in place; a failed write leaves it
\* cut short
SaveFaiss(t) ==
    /\ MayRun(t)
    /\ w[t].pc = "s_faiss"
    /\ \/ /\ disk' = [disk EXCEPT !.dir = TRUE, !.faiss = Written(heap[w[t].ldb].vecs)]
          /\ w' = [w EXCEPT ![t].pc = "s_pkl"]
          /\ loop' = loop
       \/ /\ disk' = [disk EXCEPT !.dir = TRUE, !.faiss = Truncated]
          /\ Returned(t, "error")
    /\ UNCHANGED <<heap, _db, _retriever, q, pd>>

\* save_local, second half: the docstore is pickled over index.pkl; then
\* _save_to_vectorstore returns "success"
SavePkl(t) ==
    /\ MayRun(t)
    /\ w[t].pc = "s_pkl"
    /\ \/ /\ disk' = [disk EXCEPT !.pkl = Written(heap[w[t].ldb].docs)]
          /\ Returned(t, "success")
       \/ /\ disk' = [disk EXCEPT !.pkl = Truncated]
          /\ Returned(t, "error")
    /\ UNCHANGED <<heap, _db, _retriever, q, pd>>

\* the caller has logged the result and ends: the locals of the call are
\* dropped and the event-loop thread is free again
WriterReturn(t) ==
    /\ MayRun(t)
    /\ w[t].pc = "done"
    /\ w' = [w EXCEPT ![t] = WIdle]
    /\ heap' = Collect(heap, Roots(_db, w', q))
    /\ loop' = IF loop = t THEN Idle ELSE loop
    /\ UNCHANGED <<disk, _db, _retriever, q, pd>>

----------------------------------------------------------------------------
(* QueryService and POST /query *)

Exc(type, status) == [type |-> type, status |-> status]

\* query_service.py takes HTTPException from http.client, an Exception
\* subclass whose constructor accepts no keyword argument:
\* raise HTTPException(status_code=..., detail=...) raises TypeError
HTTPException(status_code) == Exc("TypeError", 0)

\* the except clauses of process_query: the exception that leaves it
process_query_except(e) ==
    IF e.type = "ValueError" THEN HTTPException(503)
    ELSE IF e.type # "http.client.HTTPException" THEN HTTPException(500)
    ELSE e

\* the except clauses of query_documents: the HTTP status of the response
query_documents_except(e) ==
    IF e.type = "fastapi.HTTPException" THEN e.status ELSE 500

\* QueryService.load_vectorstore: the exception it raises, if any
QueryService_load_vectorstore(r) ==
    IF ~r.ok THEN Exc("RuntimeError", 0)
    ELSE IF r.db = None THEN Exc("ValueError", 0)
    ELSE Exc("none", 0)

\* the request of task x ends with HTTP status `status`
Responded(x, status) ==
    q' = [q EXCEPT ![x] = [QIdle EXCEPT !.pc = "done", !.outcome = status]]

Failed(x, e) == Responded(x, query_documents_except(process_query_except(e)))

\* query_documents -> process_query, up to its first await; a new request
\* takes the lowest idle slot
QueryStart(x) ==
    /\ loop = Idle
    /\ q[x].pc = "idle"
    /\ \A y \in Queries : y < x => q[y].pc # "idle"
    /\ LET r == get_vectorstore
           e == QueryService_load_vectorstore(r)
       IN  /\ _db' = r.db
           /\ _retriever' = r.retriever
           /\ heap' = r.heap
           /\ IF e.type = "none"
              THEN q' = [q EXCEPT ![x].pc = "retr1", ![x].vs = r.db]
              ELSE Failed(x, e)
    /\ UNCHANGED <<disk, loop, w, pd>>

\* an index whose vectors and docstore are not of the same save: a hit may
\* have no document, and the search raises
SearchMayRaise(o) == heap[o].vecs # heap[o].docs

\* await retriever.aget_relevant_documents(query): the logging retrieval
QueryRetrieve1(x) ==
    /\ loop = Idle
    /\ q[x].pc = "retr1"
    /\ \/ q' = [q EXCEPT ![x].pc = "retr2", ![x].pass1 = heap[q[x].vs]]
       \/ /\ SearchMayRaise(q[x].vs)
          /\ Failed(x, Exc("KeyError", 0))
    /\ UNCHANGED <<disk, heap, _db, _retriever, loop, w, pd>>

\* await qa_chain.ainvoke(...): the retrieval inside the chain
QueryRetrieve2(x) ==
    /\ loop = Idle
    /\ q[x].pc = "retr2"
    /\ \/ q' = [q EXCEPT ![x].pc = "llm", ![x].pass2 = heap[q[x].vs]]
       \/ /\ SearchMayRaise(q[x].vs)
          /\ Failed(x, Exc("KeyError", 0))
    /\ UNCHANGED <<disk, heap, _db, _retriever, loop, w, pd>>

\* the language model answers, or its client raises
QueryFinish(x) ==
    /\ loop = Idle
    /\ q[x].pc = "llm"
    /\ \/ Responded(x, 200)
       \/ Failed(x, Exc("LLMError", 0))
    /\ UNCHANGED <<disk, heap, _db, _retriever, loop, w, pd>>

\* the response is sent
QueryReturn(x) ==
    /\ loop = Idle
    /\ q[x].pc = "done"
    /\ q' = [q EXCEPT ![x] = QIdle]
    /\ heap' = Collect(heap, Roots(_db, w, q'))
    /\ UNCHANGED <<disk, _db, _retriever, loop, w, pd>>

----------------------------------------------------------------------------
(* The process *)

\* the process is killed and started again: memory is lost, the store stays
Crash ==
    /\ ~(/\ _db = None
          /\ \A t \in Writers : w[t].pc = "idle"
          /\ \A x \in Queries : q[x].pc = "idle")
    /\ heap' = [o \in Objs |-> Free]
    /\ _db' = None
    /\ _retriever' = None
    /\ loop' = Idle
    /\ w' = [t \in Writers |-> WIdle]
    /\ q' = [x \in Queries |-> QIdle]
    /\ UNCHANGED <<disk, pd>>

Next ==
    \/ \E t \in Writers : upload_file(t)
    \/ \E t \in Writers, d \in FileInputs : add_file_to_vectorstore(t, d)
    \/ \E t \in Writers : AddGetVectorstore(t)
    \/ \E t \in Writers : AddDocuments(t)
    \/ \E t \in Writers, d \in DirInputs, c \in BOOLEAN, isdir \in BOOLEAN :
          ingest_documents(t, d, c, isdir)
    \/ \E t \in Writers : IngestRmtree(t)
    \/ \E t \in Writers : IngestMakedirs(t)
    \/ \E t \in Writers : IngestProcess(t)
    \/ \E t \in Writers : IngestBuild(t)
    \/ \E t \in Writers : SaveFaiss(t)
    \/ \E t \in Writers : SavePkl(t)
    \/ \E t \in Writers : WriterReturn(t)
    \/ \E x \in Queries : QueryStart(x)
    \/ \E x \in Queries : QueryRetrieve1(x)
    \/ \E x \in Queries : QueryRetrieve2(x)
    \/ \E x \in Queries : QueryFinish(x)
    \/ \E x \in Queries : QueryReturn(x)
    \/ LoadVectorstore
    \/ GetRetriever
    \/ Crash

Spec == Init /\ [][Next]_vars

----------------------------------------------------------------------------
(* _process_documents on its own, over documents of many lengths *)

BodyLens ==
    {0, 1, CHUNK_OVERLAP} \cup
    {k * CHUNK_SIZE + d : k \in 1..MaxMult, d \in {-1, 0, 1}}

Documents == {Doc("A", l, b, t) : l \in 0..1, b \in BodyLens, t \in 0..1}

RECURSIVE SeqsUpTo(_, _)
SeqsUpTo(S, n) ==
    IF n = 0 THEN {<< >>}
    ELSE LET shorter == SeqsUpTo(S, n - 1)
         IN  shorter \cup {Append(s, e) : s \in shorter, e \in S}

InitChunk ==
    /\ disk = NoStore
    /\ heap = [o \in Objs |-> Free]
    /\ _db = None
    /\ _retriever = None
    /\ loop = Idle
    /\ w = [t \in Writers |-> WIdle]
    /\ q = [x \in Queries |-> QIdle]
    /\ \E ds \in SeqsUpTo(Documents, MaxDocs) :
          pd = [pc |-> "called", documents |-> ds,
                result |-> [status |-> "none", chunks |-> << >>]]

ProcessDocuments ==
    /\ pd.pc = "called"
    /\ pd' = [pd EXCEPT !.pc = "returned", !.result = _process_documents(pd.documents)]
    /\ UNCHANGED <<disk, heap, _db, _retriever, loop, w, q>>

NextChunk == ProcessDocuments

SpecChunk == InitChunk /\ [][NextChunk]_vars

----------------------------------------------------------------------------
(* The sources of an answer: the loop of process_query over the context    *)
(* that the QA chain returns, on its own, over contexts of many shapes.     *)
(* The metadata of a document is a set of <<key, value>> pairs.             *)

MaxCtx == 4

MetadataGet(metadata, key, default) ==
    IF \E p \in metadata : p[1] = key
    THEN (CHOOSE p \in metadata : p[1] = key)[2]
    ELSE default

\* the loop without its test "if source not in sources"
RECURSIVE CollectSources_noTest(_, _)
CollectSources_noTest(context, sources) ==
    IF context = << >> THEN sources
    ELSE LET source == MetadataGet(Head(context).metadata, "source_doc", "Desconhecido")
         IN  CollectSources_noTest(Tail(context), Append(sources, source))

\* for doc in result.get("context", []): ... sources.append(source)
RECURSIVE CollectSources(_, _)
CollectSources(context, sources) ==
    IF context = << >> THEN sources
    ELSE LET source == MetadataGet(Head(context).metadata, "source_doc", "Desconhecido")
         IN  CollectSources(Tail(context),
                            IF source \in Range(sources) THEN sources
                            ELSE Append(sources, source))

\* sources = []; if result and result.get("context"): ...
process_query_sources(context) ==
    IF context = << >> THEN << >> ELSE CollectSources(context, << >>)

\* a retrieved document: with a source_doc, which may be any string, the
\* default included, or without one
ContextDocs ==
    {[metadata |-> {}]} \cup
    {[metadata |-> {<<"source_doc", s>>}] : s \in {"A", "B", "Desconhecido"}}

InitSources ==
    /\ disk = NoStore
    /\ heap = [o \in Objs |-> Free]
    /\ _db = None
    /\ _retriever = None
    /\ loop = Idle
    /\ w = [t \in Writers |-> WIdle]
    /\ q = [x \in Queries |-> QIdle]
    /\ \E c \in SeqsUpTo(ContextDocs, MaxCtx) :
          pd = [pc |-> "chain_returned", context |-> c, sources |-> << >>]

ProcessQuerySources ==
    /\ pd.pc = "chain_returned"
    /\ pd' = [pd EXCEPT !.pc = "sources_built",
                        !.sources = process_query_sources(pd.context)]
    /\ UNCHANGED <<disk, heap, _db, _retriever, loop, w, q>>

NextSources == ProcessQuerySources

SpecSources == InitSources /\ [][NextSources]_vars

----------------------------------------------------------------------------
(* The claims *)

\* a write is between its start and its completion
Writing(t) == w[t].pc \notin {"idle", "queued", "done"}

\* C1 (as claimed): snapshot isolation.  A query that has made both its
\* retrieval passes saw the same index entries in the second (inside the QA
\* chain) as in the first (the logging retrieval), whatever was written in
\* between.
C1_SnapshotIsolation ==
    \A x \in Queries : q[x].pc = "llm" => q[x].pass2 = q[x].pass1

\* C2 (as claimed): persist before publish.  Whenever an add has appended
\* its chunks to the index that _db serves to queries, the store already
\* holds that appended index.
C2_PersistBeforePublish ==
    \A t \in Writers :
        (w[t].kind = "add" /\ w[t].pc \in {"s_faiss", "s_pkl"} /\ w[t].ldb = _db)
            => (Complete(disk) /\ Loaded(disk) = heap[_db])

\* C3 (as claimed): once a rebuild has returned "success" for an index it
\* built, get_vectorstore() returns that index, also when an older one was
\* loaded before.
C3_RebuildPublished ==
    \A t \in Writers :
        (w[t].kind = "ingest" /\ w[t].pc = "done" /\ w[t].status = "success"
            /\ w[t].ldb # None)
            => (get_vectorstore.ok
                /\ get_vectorstore.heap[get_vectorstore.db] = heap[w[t].ldb])

\* C4 (as claimed): atomic persistence.  No step of the program, and no
\* crash after it, takes the store from holding a complete index to holding
\* none: a store that is complete stays complete.
C4_AtomicPersistence == [][Complete(disk) => Complete(disk')]_vars

\* C5 (as claimed): check_vectorstore_exists() is true only if a load of the
\* store succeeds.
C5_ExistsMeansLoadable == check_vectorstore_exists => Loadable(disk)

\* C6 (as claimed): a query that starts while no index is loaded and nothing
\* is persisted ends with HTTP 503, not 500 and not a successful answer.
C6_NotReadyIs503 ==
    [][\A x \in Queries :
          (q[x].pc = "idle" /\ q'[x].pc = "done" /\ _db = None
              /\ ~check_vectorstore_exists)
              => q'[x].outcome = 503]_vars

\* C7: writes are serialized.  At most one write is between its start and
\* its completion.
C7_WritesSerialized == Cardinality({t \in Writers : Writing(t)}) <= 1

\* a write is saving its index while the background task of another upload
\* waits for its turn
C7_Witness ==
    \E t, u \in Writers :
        /\ w[t].pc \in {"s_faiss", "s_pkl"}
        /\ w[u].pc = "queued"

\* C8 (as claimed): readers are never blocked by writers.  While the add of
\* a background task is in progress, a query that arrives can start.
C8_ReadersNotBlocked ==
    \A t \in Writers :
        (w[t].kind = "add" /\ Writing(t) /\ \E x \in Queries : q[x].pc = "idle")
            => \E x \in Queries : ENABLED QueryStart(x)

\* C9 (as claimed): no silent partial success.  When a write has returned a
\* status other than "success", no chunk of its batch (none of which was in
\* the index when it started) is in the in-memory or the persisted index.
C9_NoPartialSuccess ==
    \A t \in Writers :
        (w[t].pc = "done" /\ w[t].status # "success" /\ w[t].fresh)
            => \A c \in Range(w[t].chunks) : ~InStore(c)

\* C10 (as claimed): every chunk _process_documents returns has a text of at
\* most CHUNK_SIZE characters.
C10_ChunkWithinSize ==
    pd.pc = "returned" =>
        \A i \in 1..Len(pd.result.chunks) :
            TextLen(pd.result.chunks[i].text) <= CHUNK_SIZE

\* C10 (amended): every chunk _process_documents returns has a text of at
\* most CHUNK_SIZE characters plus the length of the prefix "passage: ".
C10_ChunkWithinSizePlusPrefix ==
    pd.pc = "returned" =>
        \A i \in 1..Len(pd.result.chunks) :
            TextLen(pd.result.chunks[i].text) <= CHUNK_SIZE + TextLen(PassagePrefix)

\* a document of two chunks has been processed, the first of them as long
\* as a chunk can be
C10_Witness ==
    /\ pd.pc = "returned"
    /\ Len(pd.result.chunks) >= 2
    /\ TextLen(pd.result.chunks[1].text) = CHUNK_SIZE + TextLen(PassagePrefix)

SkippedIngest(t) ==
    /\ w'[t].pc = "done"
    /\ w'[t].status = "success"
    /\ w'[t].chunks = << >>
    /\ w'[t].ldb = None
    /\ UNCHANGED <<disk, heap, _db, _retriever>>

\* C12 (as claimed): whatever data_dir is, ingest_documents with
\* clear_existing=False on an existing store returns "success" at once and
\* leaves the store, the singleton and the index objects as they are.
C12_NoOpWhenStoreExists ==
    [][\A t \in Writers :
          (w[t].pc = "idle" /\ w'[t].kind = "ingest" /\ check_vectorstore_exists)
              => \A d \in DirInputs, isdir \in BOOLEAN :
                    ingest_documents(t, d, FALSE, isdir) => SkippedIngest(t)]_vars

\* C12 (amended): when data_dir is a directory, ingest_documents with
\* clear_existing=False on an existing store returns "success" at once and
\* leaves the store, the singleton and the index objects as they are; when
\* data_dir is no directory it returns "error", with the same frame.
C12_NoOpWhenStoreExistsAndDataDir ==
    [][\A t \in Writers :
          (w[t].pc = "idle" /\ w'[t].kind = "ingest" /\ check_vectorstore_exists)
              => \A d \in DirInputs :
                    /\ ingest_documents(t, d, FALSE, TRUE) => SkippedIngest(t)
                    /\ ingest_documents(t, d, FALSE, FALSE)
                          => /\ w'[t].pc = "done"
                             /\ w'[t].status = "error"
                             /\ UNCHANGED <<disk, heap, _db, _retriever>>]_vars

\* an ingest has returned "success" on an existing, complete store without
\* loading a document or building an index
C12_Witness ==
    \E t \in Writers :
        /\ w[t].kind = "ingest" /\ ~w[t].clear
        /\ w[t].pc = "done" /\ w[t].status = "success"
        /\ w[t].documents = << >>
        /\ w[t].chunks = << >> /\ w[t].ldb = None
        /\ Complete(disk)

\* what a call of VectorstoreService returns when it gives back the index
\* held in memory as it is
Held(r) == r.ok /\ r.db = _db /\ r.retriever = _retriever /\ r.heap = heap

\* what a call of VectorstoreService returns when it goes to the store: a new
\* object read from it, or a failure that leaves nothing behind
Read(r) ==
    IF Loadable(disk)
    THEN r.ok /\ r.db # None /\ ~heap[r.db].live /\ r.heap[r.db] = Loaded(disk)
    ELSE ~r.ok /\ r.db = None /\ r.retriever = None /\ r.heap = heap

\* C13: singleton lazy load.  While an index is held, load_vectorstore,
\* get_vectorstore and get_retriever return that object and read nothing;
\* while none is held (at the start, after a failed load) each of them goes
\* to the store; and no step replaces a held object by another one.
C13_SingletonLazyLoad ==
    [][/\ \A r \in {load_vectorstore, get_vectorstore, get_retriever} :
             IF _db # None THEN Held(r) ELSE Read(r)
       /\ (_db # None /\ _db' # None) => (_db' = _db /\ _retriever' = _retriever)
       /\ (_db = None /\ _db' # None) => heap'[_db'] = Loaded(disk)]_vars

\* a query loaded the index and the add of a background task, calling
\* get_vectorstore after it, got the same object
C13_Witness ==
    \E t \in Writers, x \in Queries :
        /\ _db # None
        /\ q[x].pc \in {"retr1", "retr2"} /\ q[x].vs = _db
        /\ w[t].pc = "a_add" /\ w[t].ldb = _db

\* an input with nothing to index: no document, or only blank ones
ZeroContent(documents) ==
    \A i \in 1..Len(documents) : documents[i].text.body = 0

\* the write of task t ends with "warning" in this step, and the step builds,
\* adds and saves nothing
EndsWithWarning(t) ==
    /\ w'[t].pc = "done"
    /\ w'[t].status = "warning"
    /\ w'[t].ldb = None
    /\ UNCHANGED <<disk, heap, _db, _retriever>>

\* the steps of a write from the loading of zero-content input on: they end
\* with "warning", nothing built, added or saved
WarningOnLoad ==
    /\ \A t \in Writers :
          (w[t].pc = "queued" /\ w'[t].pc \notin {"queued", "idle"})
              => \A d \in FileInputs :
                    (ZeroContent(d) /\ add_file_to_vectorstore(t, d))
                        => EndsWithWarning(t)
    /\ \A t \in Writers :
          (w[t].pc = "i_docs" /\ ZeroContent(w[t].documents) /\ IngestProcess(t))
              => EndsWithWarning(t)

\* C14 (as claimed): a write given zero-content input ends with "warning":
\* an add at once, an ingest_documents on a data directory either at once or
\* after it has come to load the documents, and with no other status; no
\* index is built, added to or saved.
C14_ZeroContentIsWarning ==
    [][/\ WarningOnLoad
       /\ \A t \in Writers :
             (w[t].pc = "idle" /\ w'[t].kind = "ingest")
                 => \A d \in DirInputs, c \in BOOLEAN :
                       (ZeroContent(d) /\ ingest_documents(t, d, c, TRUE))
                           => (w'[t].pc \in {"i_rmtree", "i_docs"}
                               \/ EndsWithWarning(t))]_vars

\* C14 (amended): a write that comes to load zero-content input ends with
\* "warning" and builds, adds and saves nothing; an add always comes to it,
\* an ingest_documents on a data directory does unless the store exists and
\* clear_existing is False, when it returns "success" without loading.
C14_ZeroContentIsWarningWhenLoaded ==
    [][/\ WarningOnLoad
       /\ \A t \in Writers :
             (w[t].pc = "idle" /\ w'[t].kind = "ingest")
                 => \A d \in DirInputs, c \in BOOLEAN :
                       (ZeroContent(d) /\ ingest_documents(t, d, c, TRUE))
                           => IF check_vectorstore_exists /\ ~c
                              THEN SkippedIngest(t)
                              ELSE w'[t].pc \in {"i_rmtree", "i_docs"}]_vars

\* an ingest of a directory that holds only a blank document has ended with
\* "warning"
C14_Witness ==
    \E t \in Writers :
        /\ w[t].kind = "ingest" /\ w[t].documents = <<DocW>>
        /\ w[t].pc = "done" /\ w[t].status = "warning"
        /\ w[t].chunks = << >> /\ w[t].ldb = None

\* no write is between its start and the end of its caller
NoWrite == loop = Idle /\ \A t \in Writers : w[t].pc \in {"idle", "queued"}

\* C15 (as claimed): memory/disk consistency.  Whenever no write is in
\* progress, an index is loaded in the singleton and the store holds a
\* complete index (no save has failed half-way), the loaded index has the
\* entries of the stored one.
C15_MemoryEqualsDisk ==
    (NoWrite /\ _db # None /\ Complete(disk)) => heap[_db] = Loaded(disk)

\* C16 (as claimed, for the calls whose outcome is known from their input):
\* an ingest_documents call on zero-content input, which can only return
\* "warning", leaves a loadable store as it is at each of its steps, also
\* when it was called with clear_existing=True.
C16_FailedIngestKeepsStore ==
    [][\A t \in Writers :
          (w[t].kind = "ingest" /\ w[t].pc \notin {"idle", "done"}
              /\ ZeroContent(w[t].documents) /\ Loadable(disk)
              /\ w'[t].pc # "idle")
              => disk' = disk]_vars

\* C17: _db is None exactly when _retriever is None; when set, the retriever
\* is the one made from the object in _db, a live index; a load that fails
\* leaves both None; and the index a query works on is a live, loaded one.
C17_DbIffRetriever ==
    /\ (_db = None) <=> (_retriever = None)
    /\ _db # None => (_retriever = _db /\ heap[_db].live)
    /\ (_db = None /\ ~Loadable(disk))
          => (~load_vectorstore.ok /\ load_vectorstore.db = None
              /\ load_vectorstore.retriever = None)
    /\ \A x \in Queries : q[x].vs # None => heap[q[x].vs].live

\* a query met a store that is there and cannot be loaded: the load failed,
\* the query was answered with an error and both fields are None
C17_Witness ==
    /\ _db = None /\ _retriever = None
    /\ check_vectorstore_exists /\ ~Loadable(disk)
    /\ \E x \in Queries : q[x].pc = "done" /\ q[x].outcome = 500

\* the source of the i-th document of the context
SourceOf(context, i) ==
    IF \E p \in context[i].metadata : p[1] = "source_doc"
    THEN (CHOOSE p \in context[i].metadata : p[1] = "source_doc")[2]
    ELSE "Desconhecido"

\* the place of the first document of the context that has source s
FirstAt(context, s) ==
    CHOOSE i \in 1..Len(context) :
        /\ SourceOf(context, i) = s
        /\ \A j \in 1..(i - 1) : SourceOf(context, j) # s

\* C18: the sources list built from a context has no duplicates, holds the
\* source of every document of the context ("Desconhecido" for a document
\* without source_doc) and nothing else, and is in the order in which the
\* sources first occur in the context.
C18_SourcesDedupInOrder ==
    pd.pc = "sources_built" =>
        LET c == pd.context
            s == pd.sources
        IN  /\ \A i, j \in 1..Len(s) : s[i] = s[j] => i = j
            /\ Range(s) = {SourceOf(c, i) : i \in 1..Len(c)}
            /\ \A i, j \in 1..Len(s) :
                  i < j => FirstAt(c, s[i]) < FirstAt(c, s[j])

\* a context of three documents, the second without source_doc and the
\* third from the source of the first, gave two sources
C18_Witness ==
    /\ pd.pc = "sources_built"
    /\ Len(pd.context) = 3
    /\ pd.context[2].metadata = {}
    /\ pd.context[3] = pd.context[1]
    /\ pd.sources = <<"B", "Desconhecido">>

=============================================================================
